---------------------------- MODULE Spec2Model ----------------------------
(* go_bank: the account table, the JWT middleware and the HTTP handlers of *)
(* storage.go (which holds both the store and the API server), with the    *)
(* request/Account types of types.go.  Every request is served by its own  *)
(* goroutine; the only state shared between requests is the account table  *)
(* and the wall clock, so a request is modelled as: received, (for a       *)
(* protected route) the middleware's step with its one SELECT, the         *)
(* handler's step with its one statement, answered.                        *)
(*                                                                         *)
(* Not modelled: the values of first_name, last_name and created_at beyond *)
(* one sample, bcrypt's salt (verifyPassword does not observe it),         *)
(* connection errors and the connections left checked out by result sets   *)
(* nobody closes.                                                          *)
EXTENDS Integers, Sequences, FiniteSets, TLC

\* ------------------------------------------------------------------ bounds
MaxSerial == 2          \* highest id the serial column hands out
RandLimit == 2          \* rand.Intn(1000000) of NewAccount, scaled down
MaxTicks == 1           \* how often the clock advances
TickStep == 24          \* hours per advance of the clock

\* ------------------------------------------------------- program constants
TokenTTL == 24          \* time.Hour * 24 of CreateJWTToken, in hours
BcryptCost == 8         \* cost given to bcrypt.GenerateFromPassword
StatusOK == 200
StatusCreated == 201
StatusBadRequest == 400
StatusForbidden == 403
NoStatus == 0           \* nothing was written: net/http dropped the connection

\* Requests are served concurrently, one goroutine each.  Client "any" sends
\* requests to every route; client "new" is a second, concurrent caller of
\* sign-up, the one route whose statement is meant to add rows while other
\* requests are in flight.
Clients == {"any", "new"}
AnyRoute == {"any"}
Emails == {"a@x", "b@x"}
Passwords == {"pw1", "pw2"}
Secret == "JWT_SECRET"          \* the value of os.Getenv("JWT_SECRET")
OtherSecret == "not the secret"

VARIABLES db, now, req

vars == <<db, now, req>>

\* =================================================================== SQL
\* The columns of table account, in the order of the CREATE TABLE; SELECT *
\* returns them in this order.
Columns ==
  <<"created_at", "id", "first_name", "last_name", "email", "password",
    "account_number", "balance">>

\* The column list and the RETURNING list of CreateAccount's INSERT.
InsertColumns ==
  <<"first_name", "last_name", "email", "password", "account_number",
    "balance", "created_at">>

ReturningColumns ==
  <<"created_at", "id", "first_name", "last_name", "email",
    "account_number", "balance">>

\* A query string is its lines; a line that starts with "--" is a comment
\* to its end, whatever follows the dashes on that line.
Line(isComment, text) == [comment |-> isComment, text |-> text]

CreateAccountQuery == <<Line(TRUE, "--sql"), Line(FALSE, "INSERT")>>

SignInQuery == <<Line(TRUE, "--sql"), Line(FALSE, "SELECT_BY_EMAIL")>>

\* `--sql DELETE FROM account WHERE id=$1;` is written on ONE line.
DeleteAccountQuery == <<Line(TRUE, "--sql DELETE_BY_ID")>>

GetAccountsQuery == <<Line(FALSE, "SELECT_ALL")>>

GetAccountByIdQuery == <<Line(FALSE, "SELECT_BY_ID")>>

IsCode(l) == ~l.comment

\* What the server parses: the first line that is not a comment.
Statement(query) ==
  LET code == SelectSeq(query, IsCode)
  IN IF code = <<>> THEN "EMPTY" ELSE code[1].text

\* The number of $n placeholders of a statement.
NumInput(stmt) ==
  CASE stmt = "INSERT" -> 7
    [] stmt = "SELECT_BY_EMAIL" -> 1
    [] stmt = "SELECT_BY_ID" -> 1
    [] stmt = "DELETE_BY_ID" -> 1
    [] OTHER -> 0

IndexOf(seq, x) == CHOOSE i \in 1..Len(seq) : seq[i] = x

Project(row, cols) == [c \in {cols[i] : i \in 1..Len(cols)} |-> row[c]]

RECURSIVE OrderById(_)
OrderById(rows) ==
  IF rows = {} THEN <<>>
  ELSE LET first == CHOOSE r \in rows : \A o \in rows : r.id <= o.id
       IN <<first>> \o OrderById(rows \ {first})

Result(err, cols, rows, d) == [err |-> err, cols |-> cols, rows |-> rows, db |-> d]

\* INSERT ... RETURNING: the serial default is drawn before the UNIQUE
\* indexes on email and account_number are checked, so a rejected insert
\* consumes an id too.
Insert(d, args) ==
  LET row == [c \in {Columns[i] : i \in 1..Len(Columns)} |->
                IF c = "id" THEN d.seq ELSE args[IndexOf(InsertColumns, c)]]
      taken == \E r \in d.rows :
                 \/ r.email = row.email
                 \/ r.account_number = row.account_number
      used == [d EXCEPT !.seq = d.seq + 1]
  IN IF taken
       THEN Result("pq: duplicate key value violates unique constraint", <<>>, <<>>, used)
       ELSE Result("", ReturningColumns, <<Project(row, ReturningColumns)>>,
                   [used EXCEPT !.rows = d.rows \cup {row}])

\* db.Query(query, args...): the statement is run and its result set
\* returned; an argument count that differs from the statement's
\* placeholders is refused and nothing is run.
Query(d, query, args) ==
  LET stmt == Statement(query)
  IN IF Len(args) # NumInput(stmt)
       THEN Result("pq: got parameters the statement does not require", <<>>, <<>>, d)
     ELSE CASE stmt = "INSERT" -> Insert(d, args)
            [] stmt = "SELECT_BY_EMAIL" ->
                 Result("", Columns, OrderById({r \in d.rows : r.email = args[1]}), d)
            [] stmt = "SELECT_BY_ID" ->
                 Result("", Columns, OrderById({r \in d.rows : r.id = args[1]}), d)
            [] stmt = "SELECT_ALL" -> Result("", Columns, OrderById(d.rows), d)
            [] stmt = "DELETE_BY_ID" ->
                 Result("", <<>>, <<>>, [d EXCEPT !.rows = {r \in d.rows : r.id # args[1]}])
            [] OTHER -> Result("", <<>>, <<>>, d)

\* ============================================================ store, in Go
\* The zero value of Account; Password and the names are strings in Go, the
\* hash is modelled as a record (see hashPassword).
NoHash == [alg |-> "", cost |-> 0, pw |-> ""]

ZeroAccount ==
  [ID |-> 0, FirstName |-> "", LastName |-> "", Email |-> "", Password |-> NoHash,
   BankNumber |-> 0, Balance |-> 0, CreatedAt |-> 0]

\* The destinations rowToAccount hands to rows.Scan, in order.
RowToAccountDest ==
  <<"CreatedAt", "ID", "FirstName", "LastName", "Email", "Password",
    "BankNumber", "Balance">>

\* The destinations rowsToAccounts hands to rows.Scan, in order.
RowsToAccountsDest ==
  <<"CreatedAt", "ID", "FirstName", "LastName", "BankNumber", "Balance">>

\* rows.Scan(dest...): refuses a destination count that differs from the
\* column count, else stores column i in destination i.
Scan(cols, row, dest, into) ==
  IF Len(cols) # Len(dest)
    THEN [err |-> "sql: expected a different number of destination arguments in Scan",
          account |-> into]
    ELSE [err |-> "",
          account |-> [f \in DOMAIN into |->
                         IF \E i \in 1..Len(dest) : dest[i] = f
                           THEN row[cols[IndexOf(dest, f)]]
                           ELSE into[f]]]

\* rowToAccount: rows.Next() is called once and its answer dropped; Scan
\* on a result set with no row fails ("Rows are closed").
rowToAccount(res) ==
  IF res.rows = <<>>
    THEN [err |-> "sql: Rows are closed", account |-> ZeroAccount]
    ELSE Scan(res.cols, res.rows[1], RowToAccountDest, ZeroAccount)

\* rowsToAccounts: one Scan per row, the first error ends the loop.
RECURSIVE ScanAll(_, _, _)
ScanAll(cols, rows, acc) ==
  IF rows = <<>> THEN [err |-> "", accounts |-> acc]
  ELSE LET one == Scan(cols, rows[1], RowsToAccountsDest, ZeroAccount)
       IN IF one.err # "" THEN [err |-> one.err, accounts |-> <<>>]
          ELSE ScanAll(cols, Tail(rows), Append(acc, one.account))

rowsToAccounts(res) == ScanAll(res.cols, res.rows, <<>>)

\* Each store method answers [err, account | accounts, db].
CreateAccount(d, account) ==
  LET res == Query(d, CreateAccountQuery,
                   <<account.FirstName, account.LastName, account.Email,
                     account.Password, account.BankNumber, account.Balance,
                     account.CreatedAt>>)
  IN IF res.err # ""
       THEN [err |-> res.err, account |-> ZeroAccount, db |-> res.db]
       ELSE [err |-> rowToAccount(res).err, account |-> rowToAccount(res).account,
             db |-> res.db]

SignIn(d, email, password) ==
  LET res == Query(d, SignInQuery, <<email>>)
  IN IF res.err # ""
       THEN [err |-> "Account doesnot exists", account |-> ZeroAccount, db |-> res.db]
       ELSE [err |-> rowToAccount(res).err, account |-> rowToAccount(res).account,
             db |-> res.db]

DeleteAccount(d, id) ==
  LET res == Query(d, DeleteAccountQuery, <<id>>)
  IN [err |-> res.err, db |-> res.db]

GetAccounts(d) ==
  LET res == Query(d, GetAccountsQuery, <<>>)
  IN IF res.err # ""
       THEN [err |-> res.err, accounts |-> <<>>, db |-> res.db]
       ELSE [err |-> rowsToAccounts(res).err, accounts |-> rowsToAccounts(res).accounts,
             db |-> res.db]

GetAccountById(d, id) ==
  LET res == Query(d, GetAccountByIdQuery, <<id>>)
  IN IF res.err # ""
       THEN [err |-> res.err, account |-> ZeroAccount, db |-> res.db]
       ELSE [err |-> rowToAccount(res).err, account |-> rowToAccount(res).account,
             db |-> res.db]

\* ================================================================= passwords
\* bcrypt: the hash names the algorithm and the cost and is a one-way image
\* of the plaintext; comparing recomputes it from the offered plaintext.
hashPassword(password) ==
  [err |-> "", hash |-> [alg |-> "bcrypt", cost |-> BcryptCost, pw |-> password]]

\* A comparison that accepts every password.
verifyPassword_Any(password, hash) == hash.alg = "bcrypt"

verifyPassword(password, hash) == hash.alg = "bcrypt" /\ hash.pw = password

\* NewAccount, with the bank number rand.Intn drew.  CreatedAt is written
\* and never read back by the program: 1 stands for any time that is set,
\* as 0 stands for the zero time.
NewAccount(firstName, lastName, email, password, bankNumber) ==
  [ID |-> 0, FirstName |-> firstName, LastName |-> lastName, Email |-> email,
   Password |-> password, BankNumber |-> bankNumber, Balance |-> 0, CreatedAt |-> 1]

\* ==================================================================== tokens
\* The x-jwt-token header value.  form: "empty" (no header), "garbage" (not
\* three base64 segments) or "jws"; key is the key the signature was made
\* with, idType the JSON type of the id claim.
NoToken == [form |-> "empty", idType |-> "", id |-> 0, exp |-> 0, key |-> ""]

Garbage == [form |-> "garbage", idType |-> "", id |-> 0, exp |-> 0, key |-> ""]

Jws(idType, id, exp, key) ==
  [form |-> "jws", idType |-> idType, id |-> id, exp |-> exp, key |-> key]

\* CreateJWTToken with the expiry set to the time of issue.
CreateJWTToken_NoTTL(account, t) ==
  [err |-> "", token |-> Jws("float64", account.ID, t, Secret)]

\* The id claim is an int when signed and a JSON number (float64) once parsed.
CreateJWTToken(account, t) ==
  [err |-> "", token |-> Jws("float64", account.ID, t + TokenTTL, Secret)]

\* jwt.Parse with a key function that answers the secret: the token must
\* parse, its signature verify under the secret and its exp lie ahead.
ValidateJWT(token, t) ==
  IF token.form = "jws" /\ token.key = Secret /\ t < token.exp
    THEN [err |-> "", claims |-> [idType |-> token.idType, id |-> token.id]]
    ELSE [err |-> "token is invalid", claims |-> [idType |-> "", id |-> 0]]

\* ================================================================= responses
\* What the client gets: the status line, the body (an APIError's message
\* in error, a string in message, accounts in value) and the x-jwt-token
\* response header.
Response(status, error, message, value, token) ==
  [status |-> status, error |-> error, message |-> message, value |-> value,
   token |-> token]

NoResp == Response(NoStatus, "", "", <<>>, NoToken)

\* WriteJSON(w, status, APIError{Error: msg})
WriteError(status, msg) == Response(status, msg, "", <<>>, NoToken)

\* WriteJSON(w, status, value) for the other bodies
WriteJSON(status, message, value) == Response(status, "", message, value, NoToken)

permissionDenied == WriteError(StatusForbidden, "Permission Denied")

\* An apiFunc either answers itself (err = "") or returns an error.
Api(err, resp, d) == [err |-> err, resp |-> resp, db |-> d]

\* makeHTTPHandleFunc: a returned error becomes a 400 with the error as body.
makeHTTPHandleFunc(out) ==
  IF out.err # ""
    THEN [resp |-> WriteError(StatusBadRequest, out.err), db |-> out.db]
    ELSE [resp |-> out.resp, db |-> out.db]

\* ================================================================== handlers
\* handleSignUp without the comparison of password and confirm_password.
handleSignUp_NoConfirm(r, d, bankNumber) ==
  IF r.method # "POST" THEN Api("METHOD NOT ALLOWED", NoResp, d)
  ELSE IF ~r.bodyOk
    THEN Api("first name, last name, email, password and confirm password is required",
             NoResp, d)
  ELSE LET account == NewAccount(r.firstName, r.lastName, r.email,
                                 hashPassword(r.password).hash, bankNumber)
           made == CreateAccount(d, account)
       IN IF made.err # ""
            THEN Api("unable to create account please try again", NoResp, made.db)
            ELSE Api("", WriteJSON(StatusCreated, "Sign up successful!", <<>>), made.db)

\* Each handler is given the request r and the table d (and the number
\* NewAccount drew, the time CreateJWTToken read).
handleSignUp(r, d, bankNumber) ==
  IF r.method # "POST" THEN Api("METHOD NOT ALLOWED", NoResp, d)
  ELSE IF ~r.bodyOk
    THEN Api("first name, last name, email, password and confirm password is required",
             NoResp, d)
  ELSE IF r.password # r.confirm
    THEN Api("password and confirm password should matcn", NoResp, d)
  ELSE IF hashPassword(r.password).err # ""
    THEN Api("unable to create account please try again", NoResp, d)
  ELSE LET account == NewAccount(r.firstName, r.lastName, r.email,
                                 hashPassword(r.password).hash, bankNumber)
           made == CreateAccount(d, account)
       IN IF made.err # ""
            THEN Api("unable to create account please try again", NoResp, made.db)
            ELSE Api("", WriteJSON(StatusCreated, "Sign up successful!", <<>>), made.db)

handleSignIn(r, d, t) ==
  IF r.method # "POST" THEN Api("METHOD NOT ALLOWED", NoResp, d)
  ELSE IF ~r.bodyOk THEN Api("unable to signin", NoResp, d)
  ELSE LET found == SignIn(d, r.email, r.password)
       IN IF found.err # "" THEN Api(found.err, NoResp, found.db)
          ELSE IF ~verifyPassword(r.password, found.account.Password)
            THEN Api("", WriteError(StatusOK, "Invalid Credentials!"), found.db)
          ELSE IF CreateJWTToken(found.account, t).err # ""
            THEN Api("", WriteError(StatusOK, CreateJWTToken(found.account, t).err),
                     found.db)
          ELSE Api("", [WriteJSON(StatusOK, "signed up successfully", <<>>)
                          EXCEPT !.token = CreateJWTToken(found.account, t).token],
                   found.db)

handleGetAccount(r, d) ==
  LET got == GetAccounts(d)
  IN IF got.err # "" THEN Api("unable to get account", NoResp, got.db)
     ELSE Api("", WriteJSON(StatusOK, "", got.accounts), got.db)

handleAccount(r, d) ==
  IF r.method = "GET" THEN handleGetAccount(r, d)
  ELSE Api("METHOD NOT ALLOWED", NoResp, d)

\* strconv.Atoi of the {id} path variable
getIdFromReq(r) ==
  IF r.pathNumeric THEN [err |-> "", id |-> r.pathId]
  ELSE [err |-> "provide a numeric value for id", id |-> 0]

handleGetAccountById(r, d) ==
  IF getIdFromReq(r).err # "" THEN Api(getIdFromReq(r).err, NoResp, d)
  ELSE LET got == GetAccountById(d, getIdFromReq(r).id)
       IN IF got.err # "" THEN Api("account with id not found", NoResp, got.db)
          ELSE Api("", WriteJSON(StatusOK, "", <<got.account>>), got.db)

handleDeleteAccount(r, d) ==
  IF getIdFromReq(r).err # "" THEN Api(getIdFromReq(r).err, NoResp, d)
  ELSE LET gone == DeleteAccount(d, getIdFromReq(r).id)
       IN IF gone.err # "" THEN Api("unable to delete account", NoResp, gone.db)
          ELSE Api("", WriteJSON(StatusOK, "account deleted", <<>>), gone.db)

handleAccountID(r, d) ==
  IF r.method = "GET" THEN handleGetAccountById(r, d)
  ELSE IF r.method = "DELETE" THEN handleDeleteAccount(r, d)
  ELSE Api("METHOD NOT ALLOWED", NoResp, d)

handleTransfer(r, d) ==
  IF r.method = "POST"
    THEN IF ~r.bodyOk THEN Api("invalid character", NoResp, d)
         ELSE Api("", WriteJSON(StatusOK, "TransferRequest", <<>>), d)
    ELSE Api("METHOD NOT ALLOWED", NoResp, d)

\* WithJWTAuth without its account lookup: whoever holds a valid token is
\* forwarded.
WithJWTAuth_NoLookup(r, d, t) ==
  LET valid == ValidateJWT(r.token, t)
  IN IF valid.err # "" THEN [next |-> "done", resp |-> permissionDenied, db |-> d]
     ELSE IF valid.claims.idType # "float64"
       THEN [next |-> "done", resp |-> NoResp, db |-> d]
     ELSE [next |-> "handler", resp |-> NoResp, db |-> d]

\* WithJWTAuth up to its call of the wrapped handler: "handler" when the
\* request is forwarded, else "done" with what the client gets.  The
\* unchecked claims["id"].(float64) panics on an id claim of another type;
\* net/http recovers the panic and drops the connection, nothing is written.
WithJWTAuth(r, d, t) ==
  LET valid == ValidateJWT(r.token, t)
  IN IF valid.err # "" THEN [next |-> "done", resp |-> permissionDenied, db |-> d]
     ELSE IF valid.claims.idType # "float64"
       THEN [next |-> "done", resp |-> NoResp, db |-> d]
     ELSE LET got == GetAccountById(d, valid.claims.id)
          IN IF got.err # ""
               THEN [next |-> "done", resp |-> permissionDenied, db |-> got.db]
               ELSE [next |-> "handler", resp |-> NoResp, db |-> got.db]

\* ===================================================================== state
\* db: table account (rows) and the next value of its id sequence (seq).
\* now: the wall clock, in hours.
\* req[c]: the request client c has outstanding or last made: where it is
\*   (pc: idle, mw = in WithJWTAuth, handler = in the wrapped or unwrapped
\*   handler, done = answered), what was sent, and what came back (resp).
\*   Bookkeeping that the code does not hold: calls counts the invocations
\*   of the route's handler, created is the id of the row the request
\*   inserted (0: none), emailFree says that no row held the sign-up's email
\*   when its INSERT ran, racing that another sign-up with the same email was
\*   in flight at the same time.
Idle ==
  [pc |-> "idle", route |-> "", method |-> "", bodyOk |-> FALSE,
   firstName |-> "", lastName |-> "", email |-> "", password |-> "", confirm |-> "",
   token |-> NoToken, pathNumeric |-> FALSE, pathId |-> 0,
   calls |-> 0, created |-> 0, emailFree |-> FALSE, racing |-> FALSE,
   resp |-> NoResp]

Init ==
  /\ db = [rows |-> {}, seq |-> 1]
  /\ now = 0
  /\ req = [c \in Clients |-> Idle]

\* The routes APIServer.Run wraps in WithJWTAuth.
Protected == {"transfer", "account-id"}

\* The header values clients send: none, not a token, the token sign-in
\* made at time 0 for the first account (presented before that account
\* exists too), one signed with another key, one whose id claim is a string.
ClientTokens ==
  {NoToken, Garbage, Jws("float64", 1, TokenTTL, Secret),
   Jws("float64", 1, TokenTTL, OtherSecret), Jws("string", 0, TokenTTL, Secret)}

\* The tokens ValidateJWT can accept and the middleware can decode.
Decodable(token) ==
  token.form = "jws" /\ token.key = Secret /\ token.idType = "float64"

CanSend(c) == req[c].pc \in {"idle", "done"}

\* c's new request replaces its last one; whoever raced with the last one
\* does not race with the new one by that.
Send(c, r) ==
  req' = [o \in Clients |-> IF o = c THEN r ELSE [req[o] EXCEPT !.racing = FALSE]]

SignUpsInFlight(c) ==
  Cardinality({o \in Clients \ {c} : req[o].pc = "handler" /\ req[o].route = "sign-up"})

\* A request arrives at /auth/sign-up.  New accounts are given the first
\* password; the second one is what a wrong confirmation or a wrong sign-in
\* holds.  Client "new" sends well-formed sign-ups only.
RecvSignUp(c) ==
  /\ CanSend(c)
  /\ db.seq + SignUpsInFlight(c) <= MaxSerial
  /\ \E method \in {"POST", "GET"}, ok \in BOOLEAN,
        email \in Emails, confirm \in Passwords :
       /\ (method = "POST" /\ ok) \/ (email = "a@x" /\ confirm = "pw1")
       /\ c \in AnyRoute \/ (method = "POST" /\ ok /\ confirm = "pw1")
       /\ Send(c, [Idle EXCEPT !.pc = "handler", !.route = "sign-up", !.calls = 1,
                     !.method = method, !.bodyOk = ok,
                     !.firstName = "fn", !.lastName = "ln",
                     !.email = email, !.password = "pw1", !.confirm = confirm])
  /\ UNCHANGED <<db, now>>

\* A request arrives at /auth/sign-in.
RecvSignIn(c) ==
  /\ c \in AnyRoute
  /\ CanSend(c)
  /\ \E method \in {"POST", "GET"}, ok \in BOOLEAN,
        email \in Emails, password \in Passwords :
       /\ (method = "POST" /\ ok) \/ (email = "a@x" /\ password = "pw1")
       /\ Send(c, [Idle EXCEPT !.pc = "handler", !.route = "sign-in", !.calls = 1,
                     !.method = method, !.bodyOk = ok,
                     !.email = email, !.password = password])
  /\ UNCHANGED <<db, now>>

\* A request arrives at /account.
RecvAccount(c) ==
  /\ c \in AnyRoute
  /\ CanSend(c)
  /\ \E method \in {"GET", "POST"} :
       Send(c, [Idle EXCEPT !.pc = "handler", !.route = "account", !.calls = 1,
                  !.method = method])
  /\ UNCHANGED <<db, now>>

\* A request arrives at /account/{id}.  The method and the path variable
\* are varied under the tokens that can get past the middleware.
RecvAccountID(c) ==
  /\ c \in AnyRoute
  /\ CanSend(c)
  /\ \E method \in {"GET", "DELETE", "POST"}, token \in ClientTokens,
        numeric \in BOOLEAN, id \in 1..MaxSerial :
       /\ numeric \/ id = 1
       /\ method # "POST" \/ (numeric /\ id = 1)
       /\ Decodable(token) \/ (method = "GET" /\ numeric /\ id = 1)
       /\ Send(c, [Idle EXCEPT !.pc = "mw", !.route = "account-id",
                     !.method = method, !.token = token,
                     !.pathNumeric = numeric, !.pathId = id])
  /\ UNCHANGED <<db, now>>

\* A request arrives at /account/transfer.
RecvTransfer(c) ==
  /\ c \in AnyRoute
  /\ CanSend(c)
  /\ \E method \in {"POST", "GET"}, ok \in BOOLEAN, token \in ClientTokens :
       /\ method = "POST" \/ ok
       /\ Decodable(token) \/ (method = "POST" /\ ok)
       /\ Send(c, [Idle EXCEPT !.pc = "mw", !.route = "transfer",
                     !.method = method, !.bodyOk = ok, !.token = token])
  /\ UNCHANGED <<db, now>>

\* The function WithJWTAuth returns runs for a request to a protected route.
Middleware(c) ==
  /\ req[c].pc = "mw"
  /\ LET out == WithJWTAuth(req[c], db, now)
     IN /\ req' = [req EXCEPT ![c].pc = out.next, ![c].resp = out.resp,
                              ![c].calls = IF out.next = "handler" THEN @ + 1 ELSE @]
        /\ db' = out.db
  /\ UNCHANGED now

Answer(c, out, made, free, race) ==
  /\ req' = [req EXCEPT ![c].pc = "done", ![c].resp = out.resp,
                        ![c].created = made, ![c].emailFree = free,
                        ![c].racing = race]
  /\ db' = out.db
  /\ UNCHANGED now

NewId(before, after) ==
  IF after.rows = before.rows THEN 0
  ELSE (CHOOSE row \in after.rows \ before.rows : TRUE).id

Racing(c) ==
  \E o \in Clients \ {c} :
    /\ req[o].route = "sign-up"
    /\ req[o].email = req[c].email
    /\ req[o].pc = "handler" \/ (req[o].pc = "done" /\ req[o].racing)

ServeSignUp(c) ==
  /\ req[c].pc = "handler" /\ req[c].route = "sign-up"
  /\ \E bankNumber \in 0..(RandLimit - 1) :
       LET out == makeHTTPHandleFunc(handleSignUp(req[c], db, bankNumber))
       IN Answer(c, out, NewId(db, out.db),
                 ~\E row \in db.rows : row.email = req[c].email, Racing(c))

ServeSignIn(c) ==
  /\ req[c].pc = "handler" /\ req[c].route = "sign-in"
  /\ Answer(c, makeHTTPHandleFunc(handleSignIn(req[c], db, now)), 0, FALSE, FALSE)

ServeAccount(c) ==
  /\ req[c].pc = "handler" /\ req[c].route = "account"
  /\ Answer(c, makeHTTPHandleFunc(handleAccount(req[c], db)), 0, FALSE, FALSE)

ServeAccountID(c) ==
  /\ req[c].pc = "handler" /\ req[c].route = "account-id"
  /\ Answer(c, makeHTTPHandleFunc(handleAccountID(req[c], db)), 0, FALSE, FALSE)

ServeTransfer(c) ==
  /\ req[c].pc = "handler" /\ req[c].route = "transfer"
  /\ Answer(c, makeHTTPHandleFunc(handleTransfer(req[c], db)), 0, FALSE, FALSE)

\* Time passes.
Tick ==
  /\ now + TickStep <= MaxTicks * TickStep
  /\ now' = now + TickStep
  /\ UNCHANGED <<db, req>>

Next ==
  \/ Tick
  \/ \E c \in Clients : RecvSignUp(c)
  \/ \E c \in Clients : RecvSignIn(c)
  \/ \E c \in Clients : RecvAccount(c)
  \/ \E c \in Clients : RecvAccountID(c)
  \/ \E c \in Clients : RecvTransfer(c)
  \/ \E c \in Clients : Middleware(c)
  \/ \E c \in Clients : ServeSignUp(c)
  \/ \E c \in Clients : ServeSignIn(c)
  \/ \E c \in Clients : ServeAccount(c)
  \/ \E c \in Clients : ServeAccountID(c)
  \/ \E c \in Clients : ServeTransfer(c)

Spec == Init /\ [][Next]_vars

\* ==================================================================== claims
Served(c) == req[c].pc = "handler" /\ req'[c].pc = "done"

Denied(c) == req[c].pc = "mw" /\ req'[c].pc = "done"

Forwarded(c) == req[c].pc = "mw" /\ req'[c].pc = "handler"

\* The signature of token verifies under the secret and its exp lies ahead.
Accepted(token) == token.form = "jws" /\ token.key = Secret /\ now < token.exp

HasAccount(token) ==
  token.idType = "float64" /\ \E row \in db.rows : row.id = token.id

\* A sign-up request the handler lets through to CreateAccount.
WellFormed(r) == r.method = "POST" /\ r.bodyOk /\ r.password = r.confirm

\* C1: on a route wrapped by WithJWTAuth the wrapped handler is invoked,
\* once, only if the token passed validation and its subject's account was
\* in the table at that moment; a request the middleware ends itself never
\* reaches the handler and leaves the table as it was.
C1_AuthGate ==
  [][\A c \in Clients :
       /\ Forwarded(c) => Accepted(req[c].token) /\ HasAccount(req[c].token)
                            /\ req[c].calls = 0 /\ req'[c].calls = 1
       /\ Denied(c) => req'[c].calls = 0 /\ db' = db
       /\ (Served(c) /\ req[c].route \in Protected) =>
            req[c].calls = 1 /\ req'[c].calls = 1
       /\ (req[c].route \in Protected /\ req[c].pc = "mw") => ~Served(c)]_vars

\* A token that is signed with the secret and has not expired, presented
\* when no account has its id, was answered 403 without the handler running.
C1_Witness ==
  /\ req["any"].pc = "done" /\ req["any"].route \in Protected
  /\ Accepted(req["any"].token) /\ ~HasAccount(req["any"].token)
  /\ req["any"].token.idType = "float64"
  /\ req["any"].calls = 0 /\ req["any"].resp = permissionDenied

\* C2: every request the middleware does not forward is answered 403 with
\* body {"error": "Permission Denied"}, whatever the cause.
C2_UniformDenial ==
  \A c \in Clients :
    (req[c].pc = "done" /\ req[c].route \in Protected /\ req[c].calls = 0)
      => req[c].resp = permissionDenied

\* The answer of a sign-in that succeeded for the account with this id: a
\* 200 without error whose x-jwt-token verifies under the secret, has not
\* expired and names the id.
SignedIn(resp, id) ==
  /\ resp.status = StatusOK /\ resp.error = ""
  /\ Accepted(resp.token)
  /\ resp.token.idType = "float64" /\ resp.token.id = id

\* Client s has been answered a sign-up and client c's sign-in with the same
\* email and password is being answered in this step.
SignInAfterSignUp(s, c) ==
  /\ s # c
  /\ req[s].pc = "done" /\ req[s].route = "sign-up" /\ WellFormed(req[s])
  /\ req[c].route = "sign-in" /\ Served(c)
  /\ req[c].method = "POST" /\ req[c].bodyOk
  /\ req[c].email = req[s].email /\ req[c].password = req[s].password

\* C3 as stated: after a sign-up with matching passwords and an email not
\* yet stored, a sign-in with the same email and password succeeds with a
\* token for the id given to the account that sign-up created.
C3_SignUpThenSignIn ==
  [][\A s, c \in Clients :
       (SignInAfterSignUp(s, c) /\ req[s].emailFree)
         => (req[s].created # 0 /\ SignedIn(req'[c].resp, req[s].created))]_vars

\* C3 as amended: after a sign-up with matching passwords whose INSERT the
\* table accepted (neither its email nor the bank number drawn for it was
\* stored), a sign-in with the same email and password succeeds with a
\* token for the id given to the account that sign-up created.
C3_InsertedThenSignIn ==
  [][\A s, c \in Clients :
       (SignInAfterSignUp(s, c) /\ req[s].created # 0)
         => SignedIn(req'[c].resp, req[s].created)]_vars

\* A sign-up inserted a row and the sign-in that followed got its token.
C3_Witness ==
  /\ req["new"].pc = "done" /\ req["new"].route = "sign-up"
  /\ req["new"].created # 0
  /\ req["any"].pc = "done" /\ req["any"].route = "sign-in"
  /\ req["any"].email = req["new"].email
  /\ req["any"].password = req["new"].password
  /\ req["any"].resp.token.form = "jws"
  /\ req["any"].resp.token.id = req["new"].created

\* C4: a sign-up whose row was inserted is answered 201 with a message; the
\* client is never told that it failed.
C4_InsertReported ==
  \A c \in Clients :
    (req[c].pc = "done" /\ req[c].route = "sign-up" /\ req[c].created # 0)
      => (req[c].resp.status = StatusCreated /\ req[c].resp.error = "")

\* C5: a sign-up whose password differs from confirm_password is answered
\* an error and leaves the table, its id sequence included, as it was.
C5_MismatchRejected ==
  [][\A c \in Clients :
       (Served(c) /\ req[c].route = "sign-up" /\ req[c].password # req[c].confirm)
         => /\ db' = db
            /\ req'[c].created = 0
            /\ req'[c].resp.status = StatusBadRequest
            /\ req'[c].resp.error # ""]_vars

\* A sign-up with differing passwords was answered while a table that holds
\* an account stayed as it was.
C5_Witness ==
  /\ req["any"].pc = "done" /\ req["any"].route = "sign-up"
  /\ req["any"].method = "POST" /\ req["any"].bodyOk
  /\ req["any"].password # req["any"].confirm
  /\ req["any"].resp.status = StatusBadRequest
  /\ db.rows # {}

\* C6: DELETE /account/{id} with a numeric id succeeds whether or not a row
\* has the id, and afterwards the table holds the rows it held except the
\* one with that id.
C6_DeleteRemoves ==
  [][\A c \in Clients :
       (Served(c) /\ req[c].route = "account-id" /\ req[c].method = "DELETE"
          /\ req[c].pathNumeric)
         => /\ req'[c].resp.status = StatusOK /\ req'[c].resp.error = ""
            /\ db'.rows = {row \in db.rows : row.id # req[c].pathId}]_vars

\* C7: GET /account is answered 200 with one entry per stored account, the
\* empty list when there is none.
C7_ListsAll ==
  [][\A c \in Clients :
       (Served(c) /\ req[c].route = "account" /\ req[c].method = "GET")
         => /\ req'[c].resp.status = StatusOK /\ req'[c].resp.error = ""
            /\ Len(req'[c].resp.value) = Cardinality(db.rows)]_vars

\* C8: email and id are unique in the table, and of two well-formed
\* sign-ups with the same email that were in flight together, the email not
\* stored before, one is answered 201, the other an error, and one row has
\* the email.
C8_OneOfTwo ==
  /\ \A r1, r2 \in db.rows : (r1.id = r2.id \/ r1.email = r2.email) => r1 = r2
  /\ \A c, o \in Clients :
       (/\ c # o
        /\ req[c].pc = "done" /\ req[o].pc = "done"
        /\ req[c].route = "sign-up" /\ req[o].route = "sign-up"
        /\ WellFormed(req[c]) /\ WellFormed(req[o])
        /\ req[c].email = req[o].email
        /\ req[c].racing /\ req[o].racing
        /\ req[c].emailFree)
         => /\ Cardinality({row \in db.rows : row.email = req[c].email}) = 1
            /\ req[c].resp.status = StatusCreated
            /\ req[o].resp.status = StatusBadRequest /\ req[o].resp.error # ""

\* C9: of the requests that were answered, one answered with an error body
\* has status 400, or 403 if the middleware ended it; 403 comes from the
\* middleware only and no error body goes out under a 2xx status.
C9_ErrorStatus ==
  \A c \in Clients :
    (req[c].pc = "done" /\ req[c].resp.status # NoStatus)
      => /\ req[c].resp.error # "" =>
              req[c].resp.status =
                IF req[c].route \in Protected /\ req[c].calls = 0
                  THEN StatusForbidden ELSE StatusBadRequest
         /\ req[c].resp.status = StatusForbidden =>
              (req[c].route \in Protected /\ req[c].calls = 0)

\* C10: a response carries an x-jwt-token header only when it answers a
\* sign-in whose email has a row and whose password is the one that row's
\* hash was made from, and the token then names that row's id; no request in
\* flight and no answer of another route carries one.
C10_TokenOnlyBySignIn ==
  [][\A c \in Clients :
       req'[c].resp.token # NoToken =>
         \/ req'[c] = req[c]
         \/ /\ Served(c) /\ req[c].route = "sign-in"
            /\ req'[c].resp.status = StatusOK /\ req'[c].resp.error = ""
            /\ \E row \in db.rows :
                 /\ row.email = req[c].email
                 /\ row.password.alg = "bcrypt" /\ row.password.pw = req[c].password
                 /\ req'[c].resp.token = Jws("float64", row.id, now + TokenTTL, Secret)]_vars

\* A sign-in with the right password got a token.
C10_Witness ==
  /\ req["any"].pc = "done" /\ req["any"].route = "sign-in"
  /\ req["any"].resp.token.form = "jws"
  /\ \E row \in db.rows :
       row.email = req["any"].email /\ row.id = req["any"].resp.token.id

=============================================================================
